---------------------------- MODULE Spec2Model ----------------------------
(***************************************************************************)
(* A model of the compressed sparse matrix engine of the matrix library:   *)
(* the Compressed storage (src/src/compressed.rs), its conversions to and  *)
(* from the dense layout, and the arithmetic kernels                       *)
(* (src/src/format/compressed/operation.rs).                               *)
(*                                                                         *)
(* Vectors of the program are 0-based; TLA+ sequences are 1-based.  The    *)
(* model keeps the program's 0-based numbers in every field (indices,      *)
(* offsets, positions k) and reads element k of a vector s as s[k + 1].    *)
(***************************************************************************)
EXTENDS Integers, Sequences, FiniteSets, TLC

VARIABLES
    matrix,   \* the Compressed matrix
    last,     \* the last operation called, with its arguments
    dense,    \* a Dense matrix
    back,     \* the Dense matrix a Compressed matrix was converted into
    band,     \* a Band matrix
    build,    \* whether debug assertions are compiled in
    operand,  \* the dense or Diagonal operand of a call, or a Diagonal matrix
    given,    \* the accumulator handed to a multiplication
    acc       \* the accumulator as the multiplication left it

denseVars == <<dense, back, band>>
mulVars == <<build, operand, given, acc>>
vars == <<matrix, last, dense, back, band, build, operand, given, acc>>

---------------------------------------------------------------------------
(* Bounds of the model.                                                    *)

\* Largest number of rows and of columns of a matrix.
MaxDim == 3

\* Largest number of stored slots a matrix is grown to by set.
MaxNnz == 3

\* Element values are 0..MaxVal; 0 is Element::zero().
MaxVal == 2

\* Largest number of rows and of columns of the operands of a
\* multiplication.
MulDim == 2

Dims == 0..MaxDim
Values == 0..MaxVal
Formats == {"Column", "Row"}

---------------------------------------------------------------------------
(* Vec<T> helpers.                                                         *)

\* Vec::insert(k, x), k 0-based.
Insert(s, k, x) == SubSeq(s, 1, k) \o <<x>> \o SubSeq(s, k + 1, Len(s))

\* Vec::remove(k), k 0-based.
Remove(s, k) == SubSeq(s, 1, k) \o SubSeq(s, k + 2, Len(s))

\* Element::zero()
Zero == 0

---------------------------------------------------------------------------
(* Compressed<T>                                                           *)

\* The major dimension's size: the number of offsets minus one.
Major(rows, columns, format) == IF format = "Column" THEN columns ELSE rows

with_capacity(rows, columns, format, capacity) ==
    [rows |-> rows, columns |-> columns, nonzeros |-> 0, format |-> format,
     values |-> <<>>, indices |-> <<>>,
     offsets |-> [x \in 1..(Major(rows, columns, format) + 1) |-> 0]]

new(rows, columns, format) == with_capacity(rows, columns, format, 0)

\* The scan of get: the value at minor index i in positions k..end-1.
RECURSIVE getScan(_, _, _, _)
getScan(m, i, k, end) ==
    IF k < end
    THEN IF m.indices[k + 1] = i THEN m.values[k + 1]
         ELSE IF m.indices[k + 1] > i THEN Zero
         ELSE getScan(m, i, k + 1, end)
    ELSE Zero

\* get that forgets the swap of the coordinates for the Row format.
get_noswap(m, row, col) ==
    getScan(m, row, m.offsets[col + 1], m.offsets[col + 2])

get(m, row, col) ==
    LET i == IF m.format = "Row" THEN col ELSE row
        j == IF m.format = "Row" THEN row ELSE col
    IN  getScan(m, i, m.offsets[j + 1], m.offsets[j + 2])

\* The scan of set without the break on a larger index.
RECURSIVE setScan_nobreak(_, _, _, _)
setScan_nobreak(m, i, k, end) ==
    IF k < end
    THEN IF m.indices[k + 1] = i THEN [found |-> TRUE, k |-> k]
         ELSE setScan_nobreak(m, i, k + 1, end)
    ELSE [found |-> FALSE, k |-> k]

\* The scan of set: where the while loop stops, and whether it stopped on a
\* slot holding minor index i.
RECURSIVE setScan(_, _, _, _)
setScan(m, i, k, end) ==
    IF k < end
    THEN IF m.indices[k + 1] = i THEN [found |-> TRUE, k |-> k]
         ELSE IF m.indices[k + 1] > i THEN [found |-> FALSE, k |-> k]
         ELSE setScan(m, i, k + 1, end)
    ELSE [found |-> FALSE, k |-> k]

\* set that skips a zero value given for a stored slot.
set_skip_zero(m, row, col, value) ==
    LET i == IF m.format = "Row" THEN col ELSE row
        j == IF m.format = "Row" THEN row ELSE col
        at == setScan(m, i, m.offsets[j + 1], m.offsets[j + 2])
    IN  IF at.found
        THEN IF value = Zero THEN m ELSE [m EXCEPT !.values[at.k + 1] = value]
        ELSE [m EXCEPT !.nonzeros = m.nonzeros + 1,
                       !.values = Insert(m.values, at.k, value),
                       !.indices = Insert(m.indices, at.k, i),
                       !.offsets = [x \in 1..Len(m.offsets) |->
                                      IF x >= j + 2 THEN m.offsets[x] + 1
                                      ELSE m.offsets[x]]]

\* set that takes a zero value for a deletion: it removes the slot it finds
\* and stores none where it finds none.
set_remove_zero(m, row, col, value) ==
    LET i == IF m.format = "Row" THEN col ELSE row
        j == IF m.format = "Row" THEN row ELSE col
        at == setScan(m, i, m.offsets[j + 1], m.offsets[j + 2])
    IN  IF value = Zero
        THEN IF at.found
             THEN [m EXCEPT !.nonzeros = m.nonzeros - 1,
                            !.values = Remove(m.values, at.k),
                            !.indices = Remove(m.indices, at.k),
                            !.offsets = [x \in 1..Len(m.offsets) |->
                                           IF x >= j + 2 THEN m.offsets[x] - 1
                                           ELSE m.offsets[x]]]
             ELSE m
        ELSE set_skip_zero(m, row, col, value)

set(m, row, col, value) ==
    LET i == IF m.format = "Row" THEN col ELSE row
        j == IF m.format = "Row" THEN row ELSE col
        at == setScan(m, i, m.offsets[j + 1], m.offsets[j + 2])
    IN  IF at.found
        THEN [m EXCEPT !.values[at.k + 1] = value]
        ELSE [m EXCEPT !.nonzeros = m.nonzeros + 1,
                       !.values = Insert(m.values, at.k, value),
                       !.indices = Insert(m.indices, at.k, i),
                       !.offsets = [x \in 1..Len(m.offsets) |->
                                      IF x >= j + 2 THEN m.offsets[x] + 1
                                      ELSE m.offsets[x]]]

\* The inner loop of Iterator::next and of retain: the major cursor moved
\* forward until its slice ends after position k.
RECURSIVE advance(_, _, _)
advance(offsets, major, k) ==
    IF offsets[major + 2] <= k THEN advance(offsets, major + 1, k) ELSE major

\* Iterator::next that yields the major cursor as it was before the call.
RECURSIVE next_stale(_, _, _)
next_stale(m, taken, major) ==
    IF taken = m.nonzeros THEN <<>>
    ELSE LET k == taken
             mj == advance(m.offsets, major, k)
             item == IF m.format = "Column"
                     THEN <<m.indices[k + 1], major, m.values[k + 1]>>
                     ELSE <<major, m.indices[k + 1], m.values[k + 1]>>
         IN  <<item>> \o next_stale(m, taken + 1, mj)

\* Iterator::next, called until it returns None: the items (row, column,
\* value) in the order they are produced, from the iterator state
\* (taken, major).
RECURSIVE next(_, _, _)
next(m, taken, major) ==
    IF taken = m.nonzeros THEN <<>>
    ELSE LET k == taken
             mj == advance(m.offsets, major, k)
             item == IF m.format = "Column"
                     THEN <<m.indices[k + 1], mj, m.values[k + 1]>>
                     ELSE <<mj, m.indices[k + 1], m.values[k + 1]>>
         IN  <<item>> \o next(m, taken + 1, mj)

iter(m) == next(m, 0, 0)

\* A condition passed to retain: either the closure of resize,
\* |i, j, _| i < rows && j < columns, or a FnMut that answers its n-th call
\* with decisions[n], whatever its arguments.
call(condition, i, j, value, n) ==
    IF condition.kind = "bounds"
    THEN i < condition.rows /\ j < condition.columns
    ELSE n <= Len(condition.decisions) /\ condition.decisions[n]

\* The while loop of retain that moves on after a removal too.
RECURSIVE retainLoop_skip(_, _, _, _, _)
retainLoop_skip(m, k, major, condition, calls) ==
    IF k < Len(m.indices)
    THEN LET mj == advance(m.offsets, major, k)
             args == IF m.format = "Column"
                     THEN <<m.indices[k + 1], mj, m.values[k + 1]>>
                     ELSE <<mj, m.indices[k + 1], m.values[k + 1]>>
             keep == call(condition, args[1], args[2], args[3], Len(calls) + 1)
         IN  IF keep
             THEN retainLoop_skip(m, k + 1, mj, condition, Append(calls, args))
             ELSE retainLoop_skip(
                      [m EXCEPT !.nonzeros = m.nonzeros - 1,
                                !.values = Remove(m.values, k),
                                !.indices = Remove(m.indices, k),
                                !.offsets = [x \in 1..Len(m.offsets) |->
                                               IF x >= mj + 2 THEN m.offsets[x] - 1
                                               ELSE m.offsets[x]]],
                      k + 1, mj, condition, Append(calls, args))
    ELSE [matrix |-> m, calls |-> calls]

\* The while loop of retain from position k with the major cursor at major;
\* calls is the log of the argument triples the condition was called with.
RECURSIVE retainLoop(_, _, _, _, _)
retainLoop(m, k, major, condition, calls) ==
    IF k < Len(m.indices)
    THEN LET mj == advance(m.offsets, major, k)
             args == IF m.format = "Column"
                     THEN <<m.indices[k + 1], mj, m.values[k + 1]>>
                     ELSE <<mj, m.indices[k + 1], m.values[k + 1]>>
             keep == call(condition, args[1], args[2], args[3], Len(calls) + 1)
         IN  IF keep
             THEN retainLoop(m, k + 1, mj, condition, Append(calls, args))
             ELSE retainLoop(
                      [m EXCEPT !.nonzeros = m.nonzeros - 1,
                                !.values = Remove(m.values, k),
                                !.indices = Remove(m.indices, k),
                                !.offsets = [x \in 1..Len(m.offsets) |->
                                               IF x >= mj + 2 THEN m.offsets[x] - 1
                                               ELSE m.offsets[x]]],
                      k, mj, condition, Append(calls, args))
    ELSE [matrix |-> m, calls |-> calls]

retain(m, condition) == retainLoop(m, 0, 0, condition, <<>>)

\* resize that filters only when both dimensions shrink.
resize_both(m, rows, columns) ==
    LET kept == IF rows < m.rows /\ columns < m.columns
                THEN retain(m, [kind |-> "bounds", rows |-> rows,
                                columns |-> columns]).matrix
                ELSE m
        from == Major(kept.rows, kept.columns, kept.format)
        into == Major(rows, columns, kept.format)
        offsets == IF from > into THEN SubSeq(kept.offsets, 1, into + 1)
                   ELSE IF from < into
                        THEN kept.offsets \o [x \in 1..(into - from) |-> kept.nonzeros]
                        ELSE kept.offsets
    IN  [kept EXCEPT !.offsets = offsets, !.columns = columns, !.rows = rows]

resize(m, rows, columns) ==
    LET kept == IF rows < m.rows \/ columns < m.columns
                THEN retain(m, [kind |-> "bounds", rows |-> rows,
                                columns |-> columns]).matrix
                ELSE m
        from == Major(kept.rows, kept.columns, kept.format)
        into == Major(rows, columns, kept.format)
        offsets == IF from > into THEN SubSeq(kept.offsets, 1, into + 1)
                   ELSE IF from < into
                        THEN kept.offsets \o [x \in 1..(into - from) |-> kept.nonzeros]
                        ELSE kept.offsets
    IN  [kept EXCEPT !.offsets = offsets, !.columns = columns, !.rows = rows]

\* The for loop of both transposes: set((j, i), value) for the items from
\* position n on.
RECURSIVE replay(_, _, _)
replay(into, items, n) ==
    IF n > Len(items) THEN into
    ELSE replay(set(into, items[n][2], items[n][1], items[n][3]), items, n + 1)

\* transpose that builds its result in the other format.
transpose_flip(m) ==
    replay(with_capacity(m.columns, m.rows,
                         IF m.format = "Column" THEN "Row" ELSE "Column",
                         m.nonzeros),
           iter(m), 1)

\* Matrix::transpose (mutating): the matrix that replaces self.
transpose(m) ==
    replay(with_capacity(m.columns, m.rows, m.format, m.nonzeros), iter(m), 1)

\* Transpose::transpose (value-returning).
Transpose_transpose(m) ==
    replay(with_capacity(m.columns, m.rows, m.format, m.nonzeros), iter(m), 1)

---------------------------------------------------------------------------
(* Dense<T>: rows, columns and rows * columns values, column by column.    *)

\* Dense::new: a zero matrix.
Dense_new(rows, columns) ==
    [rows |-> rows, columns |-> columns,
     values |-> [x \in 1..(rows * columns) |-> Zero]]

\* dense[(i, j)]
Dense_index(d, i, j) == d.values[j * d.rows + i + 1]

\* dense[(i, j)] = value
Dense_assign(d, i, j, value) == [d EXCEPT !.values[j * d.rows + i + 1] = value]

\* The for loop of From<&Dense> for Compressed that stores zeros too.
RECURSIVE fromLoop_all(_, _, _)
fromLoop_all(m, d, k) ==
    IF k >= Len(d.values) THEN m
    ELSE fromLoop_all(set(m, k % d.rows, k \div d.rows, d.values[k + 1]), d, k + 1)

\* The for loop of From<&Dense> for Compressed from position k on.
RECURSIVE fromLoop(_, _, _)
fromLoop(m, d, k) ==
    IF k >= Len(d.values) THEN m
    ELSE fromLoop(IF d.values[k + 1] # Zero
                  THEN set(m, k % d.rows, k \div d.rows, d.values[k + 1])
                  ELSE m,
                  d, k + 1)

\* From<&Dense<T>> for Compressed<T>
from_dense(d) == fromLoop(new(d.rows, d.columns, "Column"), d, 0)

\* The inner for loop of From<&Compressed> for Dense: the slots k..end-1 of
\* one major slice scattered into the dense values.
RECURSIVE scatter(_, _, _, _, _)
scatter(m, values, major, k, end) ==
    IF k >= end THEN values
    ELSE LET at == IF m.format = "Row"
                   THEN m.indices[k + 1] * m.rows + major
                   ELSE major * m.rows + m.indices[k + 1]
         IN  scatter(m, [values EXCEPT ![at + 1] = m.values[k + 1]],
                     major, k + 1, end)

\* The outer for loop of From<&Compressed> for Dense from major slice major on.
RECURSIVE intoLoop(_, _, _)
intoLoop(m, values, major) ==
    IF major >= Major(m.rows, m.columns, m.format) THEN values
    ELSE intoLoop(m,
                  scatter(m, values, major, m.offsets[major + 1],
                          m.offsets[major + 2]),
                  major + 1)

\* From<&Compressed<T>> for Dense<T>
into_dense(m) ==
    [Dense_new(m.rows, m.columns) EXCEPT
        !.values = intoLoop(m, Dense_new(m.rows, m.columns).values, 0)]

\* The Dense matrices of rows x columns with at most MaxNnz non-zero
\* elements.
DenseOf(rows, columns) ==
    LET cells == 1..(rows * columns)
        places == {S \in SUBSET cells : Cardinality(S) <= MaxNnz}
    IN  UNION {{[rows |-> rows, columns |-> columns,
                 values |-> [x \in cells |-> IF x \in S THEN f[x] ELSE Zero]] :
                f \in [S -> 1..MaxVal]} : S \in places}

DenseInputs == UNION {DenseOf(rows, columns) : rows \in Dims, columns \in Dims}

---------------------------------------------------------------------------
(* The program: a Compressed matrix under its public mutators.             *)

\* Whether (row, col) has a stored slot.
HasSlot(m, row, col) ==
    LET i == IF m.format = "Row" THEN col ELSE row
        j == IF m.format = "Row" THEN row ELSE col
    IN  \E k \in m.offsets[j + 1]..(m.offsets[j + 2] - 1) : m.indices[k + 1] = i

NoDense == Dense_new(0, 0)

\* No Band matrix is at hand.
NoBand == [rows |-> 0, columns |-> 0, superdiagonals |-> 0,
           subdiagonals |-> 0, data |-> <<>>]

\* Whether m has an empty major slice before a stored slot.
Gaps(m) ==
    \E x \in 1..(Len(m.offsets) - 1) :
        m.offsets[x] = m.offsets[x + 1] /\ m.offsets[x + 1] < m.nonzeros

\* How a resize to rows x columns changes the dimensions of m.
Reshape(m, rows, columns) ==
    IF (rows < m.rows /\ columns > m.columns) \/ (rows > m.rows /\ columns < m.columns)
    THEN "mixed"
    ELSE IF rows < m.rows \/ columns < m.columns THEN "shrink"
    ELSE IF rows > m.rows \/ columns > m.columns THEN "grow"
    ELSE "same"

NoOp == [kind |-> "new", row |-> 0, col |-> 0, value |-> 0,
         rows |-> 0, columns |-> 0, decisions |-> <<>>,
         reshape |-> "none", dropped |-> 0, direct |-> FALSE,
         status |-> "none",
         result |-> new(0, 0, "Column")]

\* No multiplication is under way.  No in-range call of the program above
\* depends on the build.
NoMultiply ==
    /\ build = "debug"
    /\ operand = NoDense
    /\ given = <<>>
    /\ acc = <<>>

\* A matrix is created empty or by converting from Dense.
Init ==
    /\ \/ /\ \E rows \in Dims, columns \in Dims, format \in Formats :
                 matrix = new(rows, columns, format)
          /\ last = NoOp
       \/ /\ \E d \in DenseInputs : matrix = from_dense(d)
          /\ last = [NoOp EXCEPT !.kind = "from"]
    /\ dense = NoDense
    /\ back = NoDense
    /\ band = NoBand
    /\ NoMultiply

Set ==
    /\ \E row \in 0..(matrix.rows - 1), col \in 0..(matrix.columns - 1),
          value \in Values :
           /\ HasSlot(matrix, row, col) \/ matrix.nonzeros < MaxNnz
           /\ matrix' = set(matrix, row, col, value)
           /\ last' = [NoOp EXCEPT !.kind = "set", !.row = row, !.col = col,
                                   !.value = value]
    /\ UNCHANGED <<denseVars, mulVars>>

Resize ==
    /\ \E rows \in Dims, columns \in Dims :
           /\ matrix' = resize(matrix, rows, columns)
           /\ last' = [NoOp EXCEPT !.kind = "resize", !.rows = rows,
                                   !.columns = columns,
                                   !.reshape = Reshape(matrix, rows, columns),
                                   !.dropped = matrix.nonzeros - matrix'.nonzeros]
    /\ UNCHANGED <<denseVars, mulVars>>

Retain ==
    /\ \E decisions \in [1..matrix.nonzeros -> BOOLEAN] :
           /\ matrix' = retain(matrix, [kind |-> "fnmut",
                                        decisions |-> decisions]).matrix
           /\ last' = [NoOp EXCEPT !.kind = "retain", !.decisions = decisions,
                                   !.reshape = IF Gaps(matrix) THEN "gaps"
                                               ELSE "none"]
    /\ UNCHANGED <<denseVars, mulVars>>

Transpose ==
    /\ matrix' = transpose(matrix)
    /\ last' = [NoOp EXCEPT !.kind = "transpose", !.result = matrix]
    /\ UNCHANGED <<denseVars, mulVars>>

TransposeValue ==
    /\ matrix' = matrix
    /\ last' = [NoOp EXCEPT !.kind = "transposed",
                            !.result = Transpose_transpose(matrix)]
    /\ UNCHANGED <<denseVars, mulVars>>

Next == Set \/ Resize \/ Retain \/ Transpose \/ TransposeValue

Spec == Init /\ [][Next]_vars

---------------------------------------------------------------------------
(* The program: a Dense matrix converted to Compressed, the same point     *)
(* assignments made to both, and the Compressed matrix converted back.     *)

\* The Dense matrix of the tests get, set and from_dense: 5 x 3 with
\* (1,0) = 1, (3,1) = 2, (4,1) = 3, (4,2) = 4.
Example ==
    [rows |-> 5, columns |-> 3,
     values |-> <<0, 1, 0, 0, 0,
                  0, 0, 0, 2, 3,
                  0, 0, 0, 0, 4>>]

InitDense ==
    /\ dense \in DenseInputs \cup {Example}
    /\ matrix = new(0, 0, "Column")
    /\ last = [NoOp EXCEPT !.kind = "dense"]
    /\ back = NoDense
    /\ band = NoBand
    /\ NoMultiply

FromDense ==
    /\ last.kind = "dense"
    /\ matrix' = from_dense(dense)
    /\ last' = [NoOp EXCEPT !.kind = "from", !.direct = TRUE]
    /\ UNCHANGED <<denseVars, mulVars>>

\* dense[(row, col)] = value; matrix.set((row, col), value);
Assign ==
    /\ last.kind # "dense"
    /\ \E row \in 0..(matrix.rows - 1), col \in 0..(matrix.columns - 1),
          value \in Values :
           /\ HasSlot(matrix, row, col) \/ matrix.nonzeros < MaxNnz
           /\ dense' = Dense_assign(dense, row, col, value)
           /\ matrix' = set(matrix, row, col, value)
           /\ last' = [NoOp EXCEPT !.kind = "assign", !.row = row, !.col = col,
                                   !.value = value]
    /\ back' = NoDense
    /\ UNCHANGED <<band, mulVars>>

IntoDense ==
    /\ last.kind \in {"from", "assign"}
    /\ back' = into_dense(matrix)
    /\ last' = [NoOp EXCEPT !.kind = "into", !.direct = last.direct]
    /\ UNCHANGED <<matrix, dense, band, mulVars>>

NextDense == FromDense \/ Assign \/ IntoDense

SpecDense == InitDense /\ [][NextDense]_vars

---------------------------------------------------------------------------
(* The multiply-into kernels.  A kernel leaves the accumulator c and       *)
(* either returns ("done") or panics ("panicked"): on a failed debug       *)
(* assertion (debug builds only), a division by zero, or an index out of   *)
(* the bounds of a slice or vector, with c as written up to there.         *)

Builds == {"debug", "release"}

Done(c) == [c |-> c, status |-> "done"]
Panicked(c) == [c |-> c, status |-> "panicked"]

\* multiply_matrix_left: for k in offsets[l]..offsets[l + 1], from k on.
RECURSIVE leftSlots(_, _, _, _, _, _, _)
leftSlots(a, b, c, bi, co, k, end) ==
    IF k >= end THEN Done(c)
    ELSE IF k >= Len(a.indices) THEN Panicked(c)
    ELSE LET i == co + a.indices[k + 1]
         IN  IF i >= Len(c) \/ k >= Len(a.values) \/ bi >= Len(b)
             THEN Panicked(c)
             ELSE leftSlots(a, b,
                            [c EXCEPT ![i + 1] = c[i + 1] + a.values[k + 1] * b[bi + 1]],
                            bi, co, k + 1, end)

\* multiply_matrix_left: for l in 0..p, from l on.
RECURSIVE leftInner(_, _, _, _, _, _, _)
leftInner(a, b, c, m, p, j, l) ==
    IF l >= p THEN Done(c)
    ELSE IF l + 1 >= Len(a.offsets) THEN Panicked(c)
    ELSE LET slice == leftSlots(a, b, c, j * p + l, j * m,
                                a.offsets[l + 1], a.offsets[l + 2])
         IN  IF slice.status = "done"
             THEN leftInner(a, b, slice.c, m, p, j, l + 1)
             ELSE slice

\* multiply_matrix_left: for j in 0..n, from j on.
RECURSIVE leftColumns(_, _, _, _, _, _, _)
leftColumns(a, b, c, m, p, n, j) ==
    IF j >= n THEN Done(c)
    ELSE LET column == leftInner(a, b, c, m, p, j, 0)
         IN  IF column.status = "done"
             THEN leftColumns(a, b, column.c, m, p, n, j + 1)
             ELSE column

multiply_matrix_left(a, b, c, m, p, n, debug) ==
    IF debug /\ ~(/\ a.rows * a.columns = m * p
                  /\ Len(b) = p * n
                  /\ Len(c) = m * n)
    THEN Panicked(c)
    ELSE leftColumns(a, b, c, m, p, n, 0)

\* MultiplyInto<[T], [T]> for Compressed<T>
multiply_into_left(self, right, result, debug) ==
    LET m == self.rows
        p == self.columns
    IN  IF p = 0 THEN Panicked(result)
        ELSE multiply_matrix_left(self, right, result, m, p, Len(right) \div p, debug)

\* multiply_matrix_right: for i in 0..m, from i on.
RECURSIVE rightRows(_, _, _, _, _, _, _)
rightRows(a, c, value, ao, co, m, i) ==
    IF i >= m THEN Done(c)
    ELSE IF co + i >= Len(c) \/ ao + i >= Len(a) THEN Panicked(c)
    ELSE rightRows(a, [c EXCEPT ![co + i + 1] = c[co + i + 1] + value * a[ao + i + 1]],
                   value, ao, co, m, i + 1)

\* multiply_matrix_right: for k in offsets[j]..offsets[j + 1], from k on.
RECURSIVE rightSlots(_, _, _, _, _, _, _)
rightSlots(a, b, c, m, co, k, end) ==
    IF k >= end THEN Done(c)
    ELSE IF k >= Len(b.indices) \/ (m > 0 /\ k >= Len(b.values)) THEN Panicked(c)
    ELSE LET rows == rightRows(a, c, b.values[k + 1], b.indices[k + 1] * m, co, m, 0)
         IN  IF rows.status = "done"
             THEN rightSlots(a, b, rows.c, m, co, k + 1, end)
             ELSE rows

\* multiply_matrix_right: for j in 0..n, from j on.
RECURSIVE rightColumns(_, _, _, _, _, _)
rightColumns(a, b, c, m, n, j) ==
    IF j >= n THEN Done(c)
    ELSE IF j + 1 >= Len(b.offsets) THEN Panicked(c)
    ELSE LET column == rightSlots(a, b, c, m, j * m,
                                  b.offsets[j + 1], b.offsets[j + 2])
         IN  IF column.status = "done"
             THEN rightColumns(a, b, column.c, m, n, j + 1)
             ELSE column

multiply_matrix_right(a, b, c, m, p, n, debug) ==
    IF debug /\ ~(/\ Len(a) = m * p
                  /\ b.rows * b.columns = p * n
                  /\ Len(c) = m * n)
    THEN Panicked(c)
    ELSE rightColumns(a, b, c, m, n, 0)

\* MultiplyInto<Compressed<T>, [T]> for Conventional<T>
multiply_into_right(self, right, result, debug) ==
    multiply_matrix_right(self.values, right, result,
                          self.rows, self.columns, right.columns, debug)

---------------------------------------------------------------------------
(* The program: a Compressed matrix is built by set and then multiplied    *)
(* into an accumulator, as the left operand with a slice on its right or   *)
(* as the right operand of a dense matrix.                                 *)

\* The slices of at most MulDim * MulDim elements.
Slices == UNION {[1..len -> Values] : len \in 0..(MulDim * MulDim)}

\* The dense matrices of at most MulDim x MulDim.
Conventionals ==
    UNION {{[rows |-> rows, columns |-> columns, values |-> values] :
               values \in [1..(rows * columns) -> Values]} :
           rows \in 0..MulDim, columns \in 0..MulDim}

\* The accumulators: every length up to MulDim * MulDim, zeroed or holding
\* ones.
Accumulators ==
    {[x \in 1..len |-> fill] : len \in 0..(MulDim * MulDim), fill \in 0..1}

InitMultiply ==
    /\ \E rows \in 0..MulDim, columns \in 0..MulDim, format \in Formats :
           matrix = new(rows, columns, format)
    /\ last = NoOp
    /\ dense = NoDense
    /\ back = NoDense
    /\ band = NoBand
    /\ build \in Builds
    /\ operand = NoDense
    /\ given = <<>>
    /\ acc = <<>>

Build ==
    /\ last.kind \in {"new", "built"}
    /\ \E row \in 0..(matrix.rows - 1), col \in 0..(matrix.columns - 1),
          value \in Values :
           /\ HasSlot(matrix, row, col) \/ matrix.nonzeros < MaxNnz
           /\ matrix' = set(matrix, row, col, value)
    /\ last' = [NoOp EXCEPT !.kind = "built"]
    /\ UNCHANGED <<denseVars, mulVars>>

MultiplyLeft ==
    /\ last.kind \in {"new", "built"}
    /\ \E right \in Slices, result \in Accumulators :
           LET run == multiply_into_left(matrix, right, result, build = "debug")
           IN  /\ operand' = [rows |-> 0, columns |-> 0, values |-> right]
               /\ given' = result
               /\ acc' = run.c
               /\ last' = [NoOp EXCEPT !.kind = "multiply_left",
                                       !.status = run.status]
    /\ UNCHANGED <<matrix, denseVars, build>>

MultiplyRight ==
    /\ last.kind \in {"new", "built"}
    /\ \E left \in Conventionals, result \in Accumulators :
           LET run == multiply_into_right(left, matrix, result, build = "debug")
           IN  /\ operand' = left
               /\ given' = result
               /\ acc' = run.c
               /\ last' = [NoOp EXCEPT !.kind = "multiply_right",
                                       !.status = run.status]
    /\ UNCHANGED <<matrix, denseVars, build>>

NextMultiply == Build \/ MultiplyLeft \/ MultiplyRight

SpecMultiply == InitMultiply /\ [][NextMultiply]_vars

---------------------------------------------------------------------------
(* The vocabulary of the properties.                                       *)

\* The major index whose slice holds position k (-1 when no slice does).
MajorOf(m, k) ==
    LET holds == {j \in 0..(Len(m.offsets) - 2) :
                     m.offsets[j + 1] <= k /\ k < m.offsets[j + 2]}
    IN  IF holds = {} THEN -1 ELSE CHOOSE j \in holds : \A x \in holds : j <= x

\* The stored slots of m as (row, column, value), in storage order.
Stored(m) ==
    [n \in 1..Len(m.indices) |->
        LET value == IF n \in DOMAIN m.values THEN m.values[n] ELSE -1
        IN  IF m.format = "Column"
            THEN <<m.indices[n], MajorOf(m, n - 1), value>>
            ELSE <<MajorOf(m, n - 1), m.indices[n], value>>]

Range(s) == {s[n] : n \in DOMAIN s}

\* The positions 1..Len(s) of s that satisfy keep, in order.
RECURSIVE PositionsFrom(_, _, _)
PositionsFrom(len, keep, n) ==
    IF n > len THEN <<>>
    ELSE (IF keep[n] THEN <<n>> ELSE <<>>) \o PositionsFrom(len, keep, n + 1)

\* The subsequence of s at the positions that satisfy keep.
Subsequence(s, keep) ==
    LET at == PositionsFrom(Len(s), keep, 1)
    IN  [x \in 1..Len(at) |-> s[at[x]]]

\* The structural invariant of a Compressed matrix.
Valid(m) ==
    /\ Len(m.values) = m.nonzeros
    /\ Len(m.indices) = m.nonzeros
    /\ Len(m.offsets) = Major(m.rows, m.columns, m.format) + 1
    /\ m.offsets[1] = 0
    /\ m.offsets[Len(m.offsets)] = m.nonzeros
    /\ \A x \in 1..(Len(m.offsets) - 1) : m.offsets[x] <= m.offsets[x + 1]
    /\ \A x \in 1..(Len(m.offsets) - 1) :
           \A k \in (m.offsets[x] + 1)..(m.offsets[x + 1] - 1) :
               m.indices[k] < m.indices[k + 1]

---------------------------------------------------------------------------
(* C1: get called right after set((row, col), v), for an in-range          *)
(* coordinate and any value v (zero included) and either format,           *)
(* returns v.                                                              *)
C1_GetAfterSet ==
    last.kind = "set" => get(matrix, last.row, last.col) = last.value

\* A zero written over the middle slot of a three-slot row of a Row matrix.
C1_Witness ==
    /\ last.kind = "set"
    /\ last.value = Zero
    /\ matrix.format = "Row"
    /\ matrix.rows = 2
    /\ matrix.offsets = <<0, 0, 3>>
    /\ last.row = 1
    /\ last.col = 1
    /\ get(matrix, 1, 1) = Zero

(* C2: after any sequence of in-range set, retain, resize and transpose    *)
(* calls on a matrix created empty or from Dense, values, indices and      *)
(* nonzeros agree in length, offsets has major-size + 1 entries, starts    *)
(* at 0, ends at nonzeros and never decreases, and the indices of every    *)
(* major slice strictly increase.                                          *)
C2_StructuralInvariant == Valid(matrix)

\* A retain that left two slots in one slice behind an empty slice.
C2_Witness ==
    /\ last.kind = "retain"
    /\ last.decisions = <<FALSE, TRUE, TRUE>>
    /\ matrix.nonzeros = 2
    /\ \E x \in 2..(Len(matrix.offsets) - 1) :
           matrix.offsets[x] = 0 /\ matrix.offsets[x + 1] = 2

(* C3: a Compressed matrix converted from a Dense matrix D and given the   *)
(* same in-range assignments as D (zeros and repeated coordinates          *)
(* included) converts to a Dense matrix equal to D, and reads the same as  *)
(* D at every coordinate.                                                  *)
C3_SetRefinesDense ==
    /\ last.kind = "assign" =>
           /\ into_dense(matrix) = dense
           /\ \A row \in 0..(matrix.rows - 1), col \in 0..(matrix.columns - 1) :
                  get(matrix, row, col) = Dense_index(dense, row, col)
    /\ (last.kind = "into" /\ ~last.direct) => back = dense

\* A conversion back after assignments that left an explicit zero stored
\* beside two non-zero values.
C3_Witness ==
    /\ last.kind = "into"
    /\ ~last.direct
    /\ matrix.nonzeros = 3
    /\ \E k \in 1..3 : matrix.values[k] = Zero
    /\ \E k \in 1..3 : matrix.values[k] # Zero
    /\ back = dense

(* C4: resize to (rows, columns), any size, leaves the matrix with those   *)
(* dimensions and exactly the slots that had row < rows and col < columns, *)
(* each at its coordinate with its value and in the original order; no     *)
(* slot is added; offsets has new-major-size + 1 entries and every added   *)
(* major slice is empty.                                                   *)
C4_ResizePost(m, resized, rows, columns) ==
    LET inside == [n \in 1..Len(Stored(m)) |->
                      Stored(m)[n][1] < rows /\ Stored(m)[n][2] < columns]
        from == Major(m.rows, m.columns, m.format)
        into == Major(rows, columns, m.format)
    IN  /\ resized.rows = rows
        /\ resized.columns = columns
        /\ resized.format = m.format
        /\ Stored(resized) = Subsequence(Stored(m), inside)
        /\ resized.nonzeros = Len(resized.indices)
        /\ Len(resized.values) = Len(resized.indices)
        /\ Len(resized.offsets) = into + 1
        /\ \A j \in from..(into - 1) :
               resized.offsets[j + 1] = resized.offsets[j + 2]

(* C4: every resize step leaves the matrix in the state C4_ResizePost      *)
(* describes for the dimensions it was given.                              *)
C4_Resize ==
    [][last'.kind = "resize" =>
           C4_ResizePost(matrix, matrix', last'.rows, last'.columns)]_vars

\* A resize that shrank one dimension and grew the other, dropped a slot
\* and kept another.
C4_Witness ==
    /\ last.kind = "resize"
    /\ last.reshape = "mixed"
    /\ last.dropped > 0
    /\ matrix.nonzeros > 0

(* C5: retain(p) calls p exactly once per stored slot, in storage order,   *)
(* with the slot's (row, col, value), and leaves exactly the slots p       *)
(* accepted, in order, with rows, columns and format unchanged and the     *)
(* structure valid; retain(always-true) is the identity and                *)
(* retain(always-false) leaves no slot and all-zero offsets.               *)
C5_RetainPost(m, retained, decisions) ==
    LET run == retain(m, [kind |-> "fnmut", decisions |-> decisions])
    IN  /\ run.calls = Stored(m)
        /\ Stored(retained) = Subsequence(Stored(m), decisions)
        /\ retained.rows = m.rows
        /\ retained.columns = m.columns
        /\ retained.format = m.format
        /\ Valid(retained)
        /\ (\A n \in DOMAIN decisions : decisions[n]) => retained = m
        /\ (\A n \in DOMAIN decisions : ~decisions[n]) =>
               /\ retained.nonzeros = 0
               /\ retained.values = <<>>
               /\ retained.indices = <<>>
               /\ \A x \in DOMAIN retained.offsets : retained.offsets[x] = 0

(* C5: every retain step calls the condition once per stored slot, in      *)
(* storage order, and leaves the state C5_RetainPost describes.            *)
C5_Retain ==
    [][last'.kind = "retain" => C5_RetainPost(matrix, matrix', last'.decisions)]_vars

\* A retain over a matrix with an empty major slice before its slots that
\* dropped the first and the last of three slots.
C5_Witness ==
    /\ last.kind = "retain"
    /\ last.reshape = "gaps"
    /\ last.decisions = <<FALSE, TRUE, FALSE>>
    /\ matrix.nonzeros = 1

(* C6: transpose yields a matrix of columns x rows, the same format and    *)
(* nonzeros, with a slot (j, i, v) exactly for each slot (i, j, v) of the  *)
(* original, explicit zeros included, and strictly increasing indices in   *)
(* every slice; Matrix::transpose and Transpose::transpose give the same   *)
(* result, and the latter leaves the original unchanged.                   *)
C6_TransposePost(m, t) ==
    /\ t.rows = m.columns
    /\ t.columns = m.rows
    /\ t.format = m.format
    /\ t.nonzeros = m.nonzeros
    /\ Range(Stored(t)) = {<<s[2], s[1], s[3]>> : s \in Range(Stored(m))}
    /\ Valid(t)

(* C6: both transposes give the mirrored matrix C6_TransposePost describes *)
(* and agree; the value-returning one leaves its operand alone.            *)
C6_Transpose ==
    [][/\ last'.kind = "transpose" =>
              /\ C6_TransposePost(matrix, matrix')
              /\ Transpose_transpose(matrix) = matrix'
       /\ last'.kind = "transposed" =>
              /\ C6_TransposePost(matrix, last'.result)
              /\ last'.result = transpose(matrix)
              /\ matrix' = matrix]_vars

\* The transpose of a 3 x 2 matrix holding three slots, one an explicit
\* zero.
C6_Witness ==
    /\ last.kind = "transpose"
    /\ matrix.rows = 2
    /\ matrix.columns = 3
    /\ matrix.nonzeros = 3
    /\ \E k \in 1..3 : matrix.values[k] = Zero
    /\ matrix.indices # last.result.indices

(* C7: transposing twice reproduces the matrix: the same rows, columns,    *)
(* format, nonzeros, values, indices and offsets.                          *)
C7_TransposeTwice ==
    last.kind = "transpose" => transpose(matrix) = last.result

\* A transposed 2 x 3 matrix of three slots whose storage order differs
\* from the original's.
C7_Witness ==
    /\ last.kind = "transpose"
    /\ last.result.rows = 2
    /\ last.result.columns = 3
    /\ last.result.nonzeros = 3
    /\ matrix.values # last.result.values
    /\ transpose(matrix) = last.result

(* C8: a Dense matrix converted to Compressed and back is reproduced; the  *)
(* Compressed matrix in between has the Column format and exactly one      *)
(* slot per non-zero element; the 5 x 3 example converts to values         *)
(* [1,2,3,4], indices [1,3,4,4], offsets [0,1,3,4].                        *)
NonZeros(d) == {x \in DOMAIN d.values : d.values[x] # Zero}

(* C8: the conversion from Dense stores exactly the non-zero elements in   *)
(* the Column format, and converting straight back gives the Dense matrix. *)
C8_RoundTrip ==
    /\ last.kind = "from" =>
           /\ matrix.format = "Column"
           /\ matrix.rows = dense.rows
           /\ matrix.columns = dense.columns
           /\ matrix.nonzeros = Cardinality(NonZeros(dense))
           /\ Len(matrix.values) = matrix.nonzeros
           /\ Range(Stored(matrix)) =
                  {<<(x - 1) % dense.rows, (x - 1) \div dense.rows, dense.values[x]>> :
                      x \in NonZeros(dense)}
           /\ dense = Example =>
                  /\ matrix.values = <<1, 2, 3, 4>>
                  /\ matrix.indices = <<1, 3, 4, 4>>
                  /\ matrix.offsets = <<0, 1, 3, 4>>
    /\ (last.kind = "into" /\ last.direct) =>
           /\ back.rows = dense.rows
           /\ back.columns = dense.columns
           /\ back = dense

\* The 5 x 3 example converted to Compressed and back.
C8_Witness ==
    /\ last.kind = "into"
    /\ last.direct
    /\ dense = Example
    /\ matrix.nonzeros = 4
    /\ back = Example

(* The product of the m x p matrix a and the p x n matrix b, both column   *)
(* by column, added to c.                                                  *)
RECURSIVE Dot(_, _, _, _, _, _, _)
Dot(a, b, m, p, i, j, l) ==
    IF l >= p THEN 0
    ELSE a[l * m + i + 1] * b[j * p + l + 1] + Dot(a, b, m, p, i, j, l + 1)

PlusProduct(c, a, b, m, p, n) ==
    [x \in 1..(m * n) |-> c[x] + Dot(a, b, m, p, (x - 1) % m, (x - 1) \div m, 0)]

\* A sparse-left multiplication whose operands fit: the slice is p x n and
\* the accumulator m x n.
FitsLeft ==
    /\ last.kind = "multiply_left"
    /\ matrix.columns > 0
    /\ Len(operand.values) % matrix.columns = 0
    /\ Len(given) = matrix.rows * (Len(operand.values) \div matrix.columns)

\* A dense-left multiplication whose operands fit.
FitsRight ==
    /\ last.kind = "multiply_right"
    /\ operand.columns = matrix.rows
    /\ Len(given) = operand.rows * matrix.columns

\* What C9 says a sparse-left multiplication leaves in the accumulator.
LeftProduct ==
    PlusProduct(given, into_dense(matrix).values, operand.values,
                matrix.rows, matrix.columns,
                Len(operand.values) \div matrix.columns)

\* What C9 says a dense-left multiplication leaves in the accumulator.
RightProduct ==
    PlusProduct(given, operand.values, into_dense(matrix).values,
                operand.rows, operand.columns, matrix.columns)

(* C9: the kernels add the exact product to the accumulator: for a         *)
(* Compressed A (m x p) of either format, a slice B (p x n) and an         *)
(* accumulator C (m x n) the sparse-left kernel leaves C + dense(A) * B,   *)
(* and for a dense A (m x p) and a Compressed B (p x n) of either format   *)
(* the dense-left kernel leaves C + A * dense(B).  Stated of the calls     *)
(* that return: a call that panics leaves nothing to compare.              *)
C9_Accumulates ==
    /\ (FitsLeft /\ last.status = "done") => acc = LeftProduct
    /\ (FitsRight /\ last.status = "done") => acc = RightProduct

\* For the Column format every call whose operands fit returns, and leaves
\* the product.
ColumnAccumulates ==
    matrix.format = "Column" =>
        /\ FitsLeft => (last.status = "done" /\ acc = LeftProduct)
        /\ FitsRight => (last.status = "done" /\ acc = RightProduct)

\* A multiplication whose operands do not fit.
Mismatch ==
    /\ last.kind \in {"multiply_left", "multiply_right"}
    /\ ~FitsLeft
    /\ ~FitsRight

(* C10: a kernel called with operands that do not fit (a right slice that  *)
(* is not p x n, inner dimensions that differ, an accumulator that is not  *)
(* m x n) is rejected before it writes any element of the accumulator, so  *)
(* the accumulator is left as given.                                       *)
C10_Unchanged == Mismatch => acc = given

\* In a debug build the assertions do reject every such call that would
\* write.
DebugUnchanged == build = "debug" => C10_Unchanged

---------------------------------------------------------------------------
(* The program: get and set called with any coordinate, in range or not,   *)
(* in a debug or a release build.  debug_assert! is compiled in debug      *)
(* builds only; reading offsets out of its bounds panics in every build.   *)

\* Largest number of rows and of columns of a matrix accessed at any
\* coordinate; the coordinates are 0..MaxCoord.
MaxCoord == 2

\* Compressed::get as called: the assertion, the swap, the reads of offsets
\* and the scan.
Compressed_get(m, row, col, debug) ==
    LET j == IF m.format = "Row" THEN row ELSE col
    IN  IF debug /\ ~(row < m.rows /\ col < m.columns)
        THEN [status |-> "panicked", value |-> Zero, matrix |-> m]
        ELSE IF j + 2 > Len(m.offsets)
        THEN [status |-> "panicked", value |-> Zero, matrix |-> m]
        ELSE [status |-> "done", value |-> get(m, row, col), matrix |-> m]

\* Compressed::set as called: the assertion, the swap, the reads of offsets,
\* the scan and the insertion.
Compressed_set(m, row, col, value, debug) ==
    LET j == IF m.format = "Row" THEN row ELSE col
    IN  IF debug /\ ~(row < m.rows /\ col < m.columns)
        THEN [status |-> "panicked", value |-> value, matrix |-> m]
        ELSE IF j + 2 > Len(m.offsets)
        THEN [status |-> "panicked", value |-> value, matrix |-> m]
        ELSE [status |-> "done", value |-> value,
              matrix |-> set(m, row, col, value)]

InitAccess ==
    /\ \E rows \in 0..MaxCoord, columns \in 0..MaxCoord, format \in Formats :
           matrix = new(rows, columns, format)
    /\ last = NoOp
    /\ dense = NoDense
    /\ back = NoDense
    /\ band = NoBand
    /\ build \in Builds
    /\ operand = NoDense
    /\ given = <<>>
    /\ acc = <<>>

\* get at any coordinate; a caller that catches the panic goes on.
GetAt ==
    /\ \E row \in 0..MaxCoord, col \in 0..MaxCoord :
           LET run == Compressed_get(matrix, row, col, build = "debug")
           IN  /\ matrix' = run.matrix
               /\ last' = [NoOp EXCEPT !.kind = "get", !.row = row,
                                       !.col = col, !.value = run.value,
                                       !.status = run.status,
                                       !.result = matrix]
    /\ UNCHANGED <<denseVars, mulVars>>

\* set at any coordinate; a caller that catches the panic goes on.
SetAt ==
    /\ matrix.nonzeros < MaxNnz
    /\ \E row \in 0..MaxCoord, col \in 0..MaxCoord, value \in Values :
           LET run == Compressed_set(matrix, row, col, value, build = "debug")
           IN  /\ matrix' = run.matrix
               /\ last' = [NoOp EXCEPT !.kind = "set", !.row = row,
                                       !.col = col, !.value = value,
                                       !.status = run.status,
                                       !.result = matrix]
    /\ UNCHANGED <<denseVars, mulVars>>

NextAccess == GetAt \/ SetAt

SpecAccess == InitAccess /\ [][NextAccess]_vars

---------------------------------------------------------------------------
\* The last call was a get or set at a coordinate out of the range of the
\* matrix it was called on.
OutOfRange ==
    /\ last.kind \in {"get", "set"}
    /\ last.row >= last.result.rows \/ last.col >= last.result.columns

\* No stored index reaches the minor dimension's size.
IndicesInRange(m) ==
    \A n \in DOMAIN m.indices :
        m.indices[n] < (IF m.format = "Column" THEN m.rows ELSE m.columns)

(* C11: a get or set at a coordinate with row >= rows or col >= columns,   *)
(* for either format, fails and leaves the matrix as it was before the     *)
(* call, so no stored index is ever >= the minor dimension's size.         *)
C11_OutOfRangeRejected ==
    /\ OutOfRange => (last.status = "panicked" /\ matrix = last.result)
    /\ IndicesInRange(matrix)

\* In a debug build the assertion rejects every such call.
DebugRejected == build = "debug" => C11_OutOfRangeRejected

\* In every build a call whose major index is out of range panics on the
\* read of offsets, before any write.
MajorRejected ==
    (/\ OutOfRange
     /\ (IF last.result.format = "Row" THEN last.row ELSE last.col)
            >= Len(last.result.offsets) - 1)
        => (last.status = "panicked" /\ matrix = last.result)

---------------------------------------------------------------------------
(* BandMatrix<T> and DiagonalMatrix<T>, and their conversions to           *)
(* DenseMatrix<T> (src/src/band.rs, src/src/diagonal.rs).  A DenseMatrix   *)
(* is [rows, columns, data], data column-major.  A conversion either       *)
(* returns ("done") or panics ("panicked"): on the failed debug assertion  *)
(* (debug builds only) or on an index out of the bounds of a vector.       *)

\* Largest number of superdiagonals and of subdiagonals of a Band matrix.
MaxDiag == 2

\* dense.data[to] = data[from]
copy(out, data, to, from) ==
    IF from >= Len(data) \/ to >= Len(out.data)
    THEN [out EXCEPT !.status = "panicked"]
    ELSE [out EXCEPT !.data[to + 1] = data[from + 1]]

\* for j in k..columns of superdiagonal k, from j on.
RECURSIVE superColumns(_, _, _, _)
superColumns(b, out, k, j) ==
    LET diagonals == b.superdiagonals + 1 + b.subdiagonals
        i == j - k
    IN  IF out.status = "panicked" \/ j >= b.columns THEN out
        ELSE IF i >= b.rows THEN out
        ELSE superColumns(b, copy(out, b.data, j * b.rows + i,
                                  j * diagonals + b.superdiagonals - k),
                          k, j + 1)

\* for k in 1..(superdiagonals + 1), from k on.
RECURSIVE superDiagonals(_, _, _)
superDiagonals(b, out, k) ==
    IF out.status = "panicked" \/ k >= b.superdiagonals + 1 THEN out
    ELSE superDiagonals(b, superColumns(b, out, k, k), k + 1)

\* for i in 0..columns of the main diagonal, from i on.
RECURSIVE mainDiagonal(_, _, _)
mainDiagonal(b, out, i) ==
    LET diagonals == b.superdiagonals + 1 + b.subdiagonals
    IN  IF out.status = "panicked" \/ i >= b.columns THEN out
        ELSE IF i >= b.rows \/ i >= b.columns THEN out
        ELSE mainDiagonal(b, copy(out, b.data, i * b.rows + i,
                                  i * diagonals + b.superdiagonals),
                          i + 1)

\* The columns of a subdiagonal without the break at the last row.
RECURSIVE subColumns_nobreak(_, _, _, _)
subColumns_nobreak(b, out, k, j) ==
    LET diagonals == b.superdiagonals + 1 + b.subdiagonals
        i == j + k
    IN  IF out.status = "panicked" \/ j >= b.columns THEN out
        ELSE subColumns_nobreak(b, copy(out, b.data, j * b.rows + i,
                                        j * diagonals + b.superdiagonals + k),
                                k, j + 1)

\* for j in 0..columns of subdiagonal k, from j on.
RECURSIVE subColumns(_, _, _, _)
subColumns(b, out, k, j) ==
    LET diagonals == b.superdiagonals + 1 + b.subdiagonals
        i == j + k
    IN  IF out.status = "panicked" \/ j >= b.columns THEN out
        ELSE IF i >= b.rows THEN out
        ELSE subColumns(b, copy(out, b.data, j * b.rows + i,
                                j * diagonals + b.superdiagonals + k),
                        k, j + 1)

\* for k in 1..(subdiagonals + 1), from k on.
RECURSIVE subDiagonals(_, _, _)
subDiagonals(b, out, k) ==
    IF out.status = "panicked" \/ k >= b.subdiagonals + 1 THEN out
    ELSE subDiagonals(b, subColumns(b, out, k, 0), k + 1)

\* From<BandMatrix<T>> for DenseMatrix<T>
DenseMatrix_from_band(b, debug) ==
    LET diagonals == b.superdiagonals + 1 + b.subdiagonals
        zeros == [rows |-> b.rows, columns |-> b.columns,
                  data |-> [x \in 1..(b.rows * b.columns) |-> Zero],
                  status |-> "done"]
    IN  IF debug /\ Len(b.data) # diagonals * b.columns
        THEN [rows |-> 0, columns |-> 0, data |-> <<>>, status |-> "panicked"]
        ELSE subDiagonals(b, mainDiagonal(b, superDiagonals(b, zeros, 1), 0), 1)

\* From<DiagonalMatrix<T>> for BandMatrix<T>
BandMatrix_from_diagonal(diagonal) ==
    [rows |-> diagonal.rows, columns |-> diagonal.columns,
     superdiagonals |-> 0, subdiagonals |-> 0, data |-> diagonal.data]

\* From<DiagonalMatrix<T>> for DenseMatrix<T>
DenseMatrix_from_diagonal(diagonal, debug) ==
    DenseMatrix_from_band(BandMatrix_from_diagonal(diagonal), debug)

---------------------------------------------------------------------------
(* The program: a Band or a Diagonal matrix is made and converted.         *)

Min(a, b) == IF a < b THEN a ELSE b

\* The Band matrices of at most MaxDim x MaxDim with at most MaxDiag
\* diagonals above and below the main one.  Element x of the data holds
\* the value x, so that every position of the band storage, padding
\* included, is told apart; the data has the length of the band storage or
\* is one element short of it.
BandInputs ==
    UNION {{[rows |-> rows, columns |-> columns, superdiagonals |-> su,
             subdiagonals |-> sl, data |-> [x \in 1..len |-> x]] :
               len \in {(su + sl + 1) * columns, (su + sl + 1) * columns - 1}
                       \cap Nat} :
           rows \in Dims, columns \in Dims, su \in 0..MaxDiag, sl \in 0..MaxDiag}

\* The Diagonal matrices of at most MaxDim x MaxDim: one stored value for
\* each element of the main diagonal.
DiagonalInputs ==
    UNION {{[rows |-> rows, columns |-> columns, data |-> data] :
               data \in [1..Min(rows, columns) -> 1..MaxVal]} :
           rows \in Dims, columns \in Dims}

NoDiagonal == [rows |-> 0, columns |-> 0, data |-> <<>>]

InitBand ==
    /\ \/ /\ band \in BandInputs
          /\ operand = NoDiagonal
          /\ last = [NoOp EXCEPT !.kind = "band"]
       \/ /\ band = NoBand
          /\ operand \in DiagonalInputs
          /\ last = [NoOp EXCEPT !.kind = "diagonal"]
    /\ matrix = new(0, 0, "Column")
    /\ dense = NoDense
    /\ back = NoDense
    /\ build \in Builds
    /\ given = <<>>
    /\ acc = <<>>

\* let dense: DenseMatrix = band.into();
BandIntoDense ==
    /\ last.kind = "band"
    /\ LET run == DenseMatrix_from_band(band, build = "debug")
       IN  /\ back' = [rows |-> run.rows, columns |-> run.columns,
                       data |-> run.data]
           /\ last' = [NoOp EXCEPT !.kind = "band_into",
                                   !.status = run.status]
    /\ UNCHANGED <<matrix, dense, band, mulVars>>

\* let band: BandMatrix = diagonal.into();
DiagonalIntoBand ==
    /\ last.kind = "diagonal"
    /\ band' = BandMatrix_from_diagonal(operand)
    /\ last' = [NoOp EXCEPT !.kind = "band"]
    /\ UNCHANGED <<matrix, dense, back, mulVars>>

\* let dense: DenseMatrix = diagonal.into();
DiagonalIntoDense ==
    /\ last.kind = "diagonal"
    /\ LET run == DenseMatrix_from_diagonal(operand, build = "debug")
       IN  /\ band' = BandMatrix_from_diagonal(operand)
           /\ back' = [rows |-> run.rows, columns |-> run.columns,
                       data |-> run.data]
           /\ last' = [NoOp EXCEPT !.kind = "diagonal_into",
                                   !.status = run.status]
    /\ UNCHANGED <<matrix, dense, mulVars>>

NextBand == BandIntoDense \/ DiagonalIntoBand \/ DiagonalIntoDense

SpecBand == InitBand /\ [][NextBand]_vars

---------------------------------------------------------------------------
\* The Band length invariant: the data holds every diagonal of every column.
BandLength(b) ==
    Len(b.data) = (b.superdiagonals + b.subdiagonals + 1) * b.columns

\* Element (i, j) of the matrix a Band matrix stands for.
BandElement(b, i, j) ==
    IF j - b.superdiagonals <= i /\ i <= j + b.subdiagonals
    THEN b.data[j * (b.superdiagonals + b.subdiagonals + 1)
                + b.superdiagonals + i - j + 1]
    ELSE Zero

(* C12: a Band matrix whose data has the length (su + sl + 1) * columns,   *)
(* tall, wide or square, converts to Dense without a read or write out of  *)
(* either buffer, and gives the rows x columns column-major matrix whose   *)
(* element (i, j) is data[j * (su + sl + 1) + su + i - j] inside the band  *)
(* and zero outside it; the padding of the band storage is ignored.        *)
C12_BandIntoDense ==
    (last.kind = "band_into" /\ BandLength(band)) =>
        /\ last.status = "done"
        /\ back.rows = band.rows
        /\ back.columns = band.columns
        /\ Len(back.data) = band.rows * band.columns
        /\ \A i \in 0..(band.rows - 1), j \in 0..(band.columns - 1) :
               back.data[j * band.rows + i + 1] = BandElement(band, i, j)

\* A wide 2 x 3 Band matrix with two superdiagonals and one subdiagonal:
\* of its twelve stored values 1, 2, 5, 8, 11 and 12 are padding.
C12_Witness ==
    /\ last.kind = "band_into"
    /\ band.rows = 2
    /\ band.columns = 3
    /\ band.superdiagonals = 2
    /\ band.subdiagonals = 1
    /\ BandLength(band)
    /\ back.data = <<3, 4, 6, 7, 9, 10>>


(* C13: a Diagonal matrix with min(rows, columns) stored values d, tall,   *)
(* wide or square, converts to Dense through Band (su = sl = 0) without    *)
(* error, to the rows x columns matrix with d[i] at (i, i) and zero        *)
(* elsewhere; the Band matrix it makes on the way has data of the length   *)
(* (su + sl + 1) * columns.                                                *)
C13_DiagonalIntoDense ==
    last.kind = "diagonal_into" =>
        /\ last.status = "done"
        /\ back.rows = operand.rows
        /\ back.columns = operand.columns
        /\ Len(back.data) = operand.rows * operand.columns
        /\ \A i \in 0..(operand.rows - 1), j \in 0..(operand.columns - 1) :
               back.data[j * operand.rows + i + 1] =
                   (IF i = j THEN operand.data[i + 1] ELSE Zero)
        /\ band.superdiagonals = 0
        /\ band.subdiagonals = 0
        /\ BandLength(band)

\* The same of the Diagonal matrices that are not wide: rows >= columns.
TallDiagonalIntoDense == operand.rows >= operand.columns => C13_DiagonalIntoDense

\* In a release build a wide Diagonal matrix converts to the right Dense
\* matrix all the same: the main-diagonal loop stops at the last row.
ReleaseDiagonalIntoDense ==
    (last.kind = "diagonal_into" /\ build = "release") =>
        /\ last.status = "done"
        /\ \A i \in 0..(operand.rows - 1), j \in 0..(operand.columns - 1) :
               back.data[j * operand.rows + i + 1] =
                   (IF i = j THEN operand.data[i + 1] ELSE Zero)

---------------------------------------------------------------------------
(* Compressed by Diagonal: MultiplySelf::multiply_self and                 *)
(* Multiply::multiply (src/src/format/compressed/operation.rs).  The       *)
(* Diagonal operand is [rows, columns, data]; right[j] reads data[j].      *)

\* Compressed::iter_mut: the items of iter, the n-th of which lends
\* values[n - 1].
iter_mut(m) == iter(m)

\* The loop of multiply_self that scales by right[i], the row's value.
RECURSIVE scaleLoop_rows(_, _, _, _)
scaleLoop_rows(m, right, items, n) ==
    IF n > Len(items) THEN [matrix |-> m, status |-> "done"]
    ELSE LET i == items[n][1]
         IN  IF i >= Len(right.data)
             THEN [matrix |-> m, status |-> "panicked"]
             ELSE scaleLoop_rows([m EXCEPT !.values[n] = m.values[n] * right.data[i + 1]],
                                 right, items, n + 1)

\* for (_, j, value) in self.iter_mut() { *value = *value * right[j]; },
\* from the n-th item on.
RECURSIVE scaleLoop(_, _, _, _)
scaleLoop(m, right, items, n) ==
    IF n > Len(items) THEN [matrix |-> m, status |-> "done"]
    ELSE LET j == items[n][2]
         IN  IF j >= Len(right.data)
             THEN [matrix |-> m, status |-> "panicked"]
             ELSE scaleLoop([m EXCEPT !.values[n] = m.values[n] * right.data[j + 1]],
                            right, items, n + 1)

\* MultiplySelf::multiply_self: self as the call leaves it.
multiply_self(self, right, debug) ==
    IF debug /\ self.columns # right.rows
    THEN [matrix |-> self, status |-> "panicked"]
    ELSE LET resized == resize(self, self.rows, right.columns)
         IN  scaleLoop(resized, right, iter_mut(resized), 1)

\* Multiply::multiply: the matrix returned.
multiply(self, right, debug) == multiply_self(self, right, debug)

---------------------------------------------------------------------------
(* The program: a Compressed matrix is built by set and then multiplied    *)
(* by a Diagonal matrix, in place or into a new matrix.                    *)

\* The Diagonal operands of at most MulDim x MulDim.
Diagonals ==
    {d \in DiagonalInputs : d.rows <= MulDim /\ d.columns <= MulDim}

MultiplySelf ==
    /\ last.kind \in {"new", "built"}
    /\ \E right \in Diagonals :
           LET run == multiply_self(matrix, right, build = "debug")
           IN  /\ operand' = right
               /\ matrix' = run.matrix
               /\ last' = [NoOp EXCEPT !.kind = "multiply_self",
                                       !.status = run.status,
                                       !.result = matrix]
    /\ UNCHANGED <<denseVars, build, given, acc>>

Multiply ==
    /\ last.kind \in {"new", "built"}
    /\ \E right \in Diagonals :
           LET run == multiply(matrix, right, build = "debug")
           IN  /\ operand' = right
               /\ last' = [NoOp EXCEPT !.kind = "multiply",
                                       !.status = run.status,
                                       !.result = run.matrix]
    /\ UNCHANGED <<matrix, denseVars, build, given, acc>>

NextScale == Build \/ MultiplySelf \/ Multiply

SpecScale == InitMultiply /\ [][NextScale]_vars

---------------------------------------------------------------------------
\* The stored slots of a whose column is below d.columns, each value
\* multiplied by the diagonal value of its column.
ScaledSlots(a, d) ==
    LET slots == Stored(a)
        keep == [n \in 1..Len(slots) |-> slots[n][2] < d.columns]
        kept == Subsequence(slots, keep)
    IN  [n \in 1..Len(kept) |->
            <<kept[n][1], kept[n][2], kept[n][3] * d.data[kept[n][2] + 1]>>]

\* Element (i, j) of the product a * d of a Compressed a and a Diagonal d.
ProductElement(a, d, i, j) ==
    IF j < a.columns /\ j < Len(d.data)
    THEN get(a, i, j) * d.data[j + 1]
    ELSE Zero

\* scaled is a * d: the slots of a in the columns of d, scaled, in their
\* order and format, reading as the product at every coordinate.
ScalePost(a, d, scaled) ==
    /\ scaled.rows = a.rows
    /\ scaled.columns = d.columns
    /\ scaled.format = a.format
    /\ Valid(scaled)
    /\ Stored(scaled) = ScaledSlots(a, d)
    /\ \A i \in 0..(scaled.rows - 1), j \in 0..(scaled.columns - 1) :
           get(scaled, i, j) = ProductElement(a, d, i, j)

(* C14: for a Compressed A (m x p, either format) and a Diagonal D with    *)
(* D.rows = p, multiply_self(D) returns and leaves A as m x D.columns and  *)
(* equal to A * D: every slot at a column j < D.columns keeps its          *)
(* coordinate with its value multiplied by D's j-th value, the slots at    *)
(* other columns are dropped, no diagonal value is read out of range and   *)
(* the structural invariant holds; multiply(D) returns the same matrix     *)
(* and leaves A alone.                                                     *)
C14_ScaleByDiagonal ==
    /\ (last.kind = "multiply_self" /\ operand.rows = last.result.columns) =>
           /\ last.status = "done"
           /\ ScalePost(last.result, operand, matrix)
    /\ (last.kind = "multiply" /\ operand.rows = matrix.columns) =>
           /\ last.status = "done"
           /\ ScalePost(matrix, operand, last.result)
           /\ last.result = multiply_self(matrix, operand, build = "debug").matrix

\* A 2 x 2 Row matrix with three slots multiplied in place by a 2 x 1
\* Diagonal of value 2: the slots of column 1 are dropped and a slot of
\* column 0 holding 1 now holds 2.
C14_Witness ==
    /\ last.kind = "multiply_self"
    /\ last.status = "done"
    /\ last.result.format = "Row"
    /\ last.result.rows = 2
    /\ last.result.columns = 2
    /\ last.result.nonzeros = 3
    /\ operand = [rows |-> 2, columns |-> 1, data |-> <<2>>]
    /\ matrix.columns = 1
    /\ matrix.nonzeros < 3
    /\ \E n \in DOMAIN matrix.values : matrix.values[n] = 2

---------------------------------------------------------------------------
(* Matrix::nonzeros (src/src/compressed.rs): the count of the stored       *)
(* values that are not zero, next to the field nonzeros, the count of the  *)
(* stored slots.                                                           *)

\* self.values.iter().fold(0, |sum, &value| ...), from the n-th value on.
RECURSIVE nonzerosFold(_, _, _)
nonzerosFold(values, sum, n) ==
    IF n > Len(values) THEN sum
    ELSE nonzerosFold(values, IF values[n] = Zero THEN sum ELSE sum + 1, n + 1)

\* Matrix::nonzeros
Matrix_nonzeros(m) == nonzerosFold(m.values, 0, 1)

---------------------------------------------------------------------------
\* The position of the slot of (row, col) in m (-1 when it has none).
SlotOf(m, row, col) ==
    LET at == {n \in 1..Len(Stored(m)) :
                  Stored(m)[n][1] = row /\ Stored(m)[n][2] = col}
    IN  IF at = {} THEN -1 ELSE CHOOSE n \in at : TRUE

\* A step that is a call of set: where the coordinate had no slot the slot
\* count grows by one and the slot of the value is there; where it had one,
\* only that slot's value changes.
SetStep ==
    last'.kind = "set" =>
        LET n == SlotOf(matrix, last'.row, last'.col)
        IN  IF n = -1
            THEN /\ matrix'.nonzeros = matrix.nonzeros + 1
                 /\ Len(matrix'.values) = Len(matrix.values) + 1
                 /\ Range(Stored(matrix')) =
                        Range(Stored(matrix))
                            \cup {<<last'.row, last'.col, last'.value>>}
            ELSE /\ matrix'.nonzeros = matrix.nonzeros
                 /\ matrix'.indices = matrix.indices
                 /\ matrix'.offsets = matrix.offsets
                 /\ matrix'.values = [matrix.values EXCEPT ![n] = last'.value]

\* The stored slots that hold an explicit zero.
ExplicitZeros(m) == {n \in DOMAIN m.values : m.values[n] = Zero}

(* C15: set never removes a slot and treats zero as any other value: at    *)
(* an in-range coordinate without a slot it raises the field nonzeros by   *)
(* exactly 1 whatever the value, zero included; at a coordinate with a     *)
(* slot it leaves nonzeros, indices and offsets alone and changes that     *)
(* one value only.  So in every reachable state the field nonzeros is at   *)
(* least the count nonzeros() returns, and exceeds it by the number of     *)
(* stored explicit zeros.                                                  *)
C15_SetKeepsZeros ==
    /\ [][SetStep]_vars
    /\ [](/\ matrix.nonzeros >= Matrix_nonzeros(matrix)
          /\ matrix.nonzeros - Matrix_nonzeros(matrix)
                 = Cardinality(ExplicitZeros(matrix)))

\* A zero was set and the matrix holds three slots, two of them explicit
\* zeros.
C15_Witness ==
    /\ last.kind = "set"
    /\ last.value = Zero
    /\ matrix.nonzeros = 3
    /\ Matrix_nonzeros(matrix) = 1

===========================================================================
